---------------------------- MODULE Spec2Model ----------------------------
(***************************************************************************)
(* Model of spectools_ir/utils/utils.py: the resolution convolver          *)
(* (spec_convol, spec_convol_R), the static lookups, the HITRAN .par       *)
(* reader, the CH3+ line-list reader, the MIRI MRS resolution table, the   *)
(* rotation diagram and the molecule number tables.                        *)
(*                                                                         *)
(* Real numbers are exact rationals <<num, den>> (den > 0, lowest terms).  *)
(* Wavelengths are integers in an arbitrary length unit: every step of     *)
(* the convolver is homogeneous in that unit (fwhm / dw_min is a ratio).   *)
(***************************************************************************)
EXTENDS Integers, Sequences, FiniteSets, TLC

VARIABLES
    wave,      \* spec_convol*: argument wave (sequence of integers)
    flux,      \* spec_convol*: argument flux (sequence of integers)
    res,       \* spec_convol*: the resolution argument, [kind, v]
    cv,        \* spec_convol*: the call and the locals it leaves, [call, ...]
    lkName,    \* lookups: the molecule_name / subband argument
    lkIso,     \* lookups: the isotopologue_number argument
    lk,        \* lookups: the call made and its outcome, [fn, out]
    pFile,     \* extract_hitran_from_par: the file named, [exists, lines]
    pArgs,     \* extract_hitran_from_par: the keyword arguments
    pPc,       \* extract_hitran_from_par: where the call is
    pIdx,      \* extract_hitran_from_par: the line the loop is at (1-based)
    pData,     \* extract_hitran_from_par: the rows appended to data so far
    pOut,      \* extract_hitran_from_par: how the call ended
    fArgs,     \* the other functions: the function exercised and its arguments
    fOut       \* the other functions: the call made and its outcome, [fn, ...]

cvars == <<wave, flux, res, cv>>
lvars == <<lkName, lkIso, lk>>
pvars == <<pFile, pArgs, pPc, pIdx, pData, pOut>>
fvars == <<fArgs, fOut>>
vars == <<wave, flux, res, cv, lkName, lkIso, lk, pFile, pArgs, pPc, pIdx, pData, pOut,
          fArgs, fOut>>

----------------------------------------------------------------------------
(* Bounds of the model *)
MaxLen == 3      \* longest wave / flux array
MaxWave == 5     \* largest wavelength, in model length units
MaxFlux == 1     \* flux values are 0..MaxFlux
MaxR == 2        \* resolving powers are 1..MaxR
MaxIso == 12     \* isotopologue numbers are 1..MaxIso
MaxLines == 2    \* longest .par file, in records

----------------------------------------------------------------------------
(* Exact rational arithmetic *)
Abs(a) == IF a < 0 THEN -a ELSE a

RECURSIVE GCD(_, _)
GCD(a, b) == IF b = 0 THEN a ELSE GCD(b, a % b)

Rat(n, d) ==
    LET g == GCD(Abs(n), Abs(d))
        s == IF d < 0 THEN -1 ELSE 1
    IN  <<s * (n \div g), s * (d \div g)>>

RInt(n) == <<n, 1>>

RAdd(x, y) ==
    LET g == GCD(x[2], y[2])
        l == (x[2] \div g) * y[2]
    IN  Rat(x[1] * (l \div x[2]) + y[1] * (l \div y[2]), l)

RNeg(x) == <<-x[1], x[2]>>
RSub(x, y) == RAdd(x, RNeg(y))

RMul(x, y) ==
    LET g1 == GCD(Abs(x[1]), y[2])
        g2 == GCD(Abs(y[1]), x[2])
    IN  Rat((x[1] \div g1) * (y[1] \div g2), (x[2] \div g2) * (y[2] \div g1))

\* x / y for y # 0
RDiv(x, y) == RMul(x, IF y[1] < 0 THEN <<-y[2], -y[1]>> ELSE <<y[2], y[1]>>)

RLt(x, y) == x[1] * y[2] < y[1] * x[2]
RLe(x, y) == x[1] * y[2] <= y[1] * x[2]
RAbs(x) == <<Abs(x[1]), x[2]>>
RFloor(x) == x[1] \div x[2]
RCeil(x) == -((-x[1]) \div x[2])

RECURSIVE RMinSeq(_)
RMinSeq(s) ==
    IF Len(s) = 1 THEN s[1]
    ELSE LET m == RMinSeq(Tail(s)) IN IF RLe(s[1], m) THEN s[1] ELSE m

RECURSIVE RSum(_, _)
RSum(s, n) == IF n = 0 THEN RInt(0) ELSE RAdd(RSum(s, n - 1), s[n])

RECURSIVE Pow2(_)
Pow2(n) == IF n = 0 THEN 1 ELSE 2 * Pow2(n - 1)

\* an array of n elements as a tuple, every element evaluated once
AsSeq(f, n) == SubSeq(f, 1, n)

RatSeq(s) == AsSeq([i \in 1..Len(s) |-> RInt(s[i])], Len(s))

----------------------------------------------------------------------------
(* spec_convol / spec_convol_R: the steps of the shared body *)

\* astropy.constants.c.value, m/s
c_value == 299792458

\* a faulty variant: dv taken in m/s, R = c / dv
RofDvMetresPerSecond(dv) == RDiv(RInt(c_value), dv)

\* line 414: R = c.value/(dv*1e3), dv in km/s
RofDv(dv) == RDiv(RInt(c_value), RMul(dv, RInt(1000)))

\* the resolving power at point i: a scalar broadcasts, an array is aligned
ResAt(r, i) ==
    IF r.kind = "array" THEN RInt(r.v[i])
    ELSE IF r.kind = "scalar" THEN RInt(r.v)
    ELSE RofDv(r.v)

\* np.roll(wave, 1): every element moves one place up, the last becomes the first
Roll1(w) == AsSeq([i \in 1..Len(w) |-> IF i = 1 THEN w[Len(w)] ELSE w[i - 1]], Len(w))

\* a faulty variant: the differences without np.abs
DwsSigned(w) ==
    LET rolled == Roll1(w) IN AsSeq([i \in 1..Len(w) |-> w[i] - rolled[i]], Len(w))

\* dws = np.abs(wave - np.roll(wave, 1))
Dws(w) ==
    LET rolled == Roll1(w)
    IN  AsSeq([i \in 1..Len(w) |-> Abs(w[i] - rolled[i])], Len(w))

RECURSIVE IntMinSeq(_)
IntMinSeq(s) ==
    IF Len(s) = 1 THEN s[1]
    ELSE LET m == IntMinSeq(Tail(s)) IN IF s[1] <= m THEN s[1] ELSE m

\* dw_min = np.min(dws)
DwMin(w) == IntMinSeq(Dws(w))

\* fwhm = wave / R
Fwhm(w, r) == AsSeq([i \in 1..Len(w) |-> RDiv(RInt(w[i]), ResAt(r, i))], Len(w))

\* np.min(fwhm / dw_min), for dw_min # 0
FwhmSRaw(fwhm, dw_min) ==
    RMinSeq(AsSeq([i \in 1..Len(fwhm) |-> RDiv(fwhm[i], RInt(dw_min))], Len(fwhm)))

\* a faulty variant: the sampling without the Nyquist floor
FwhmSUnclamped(fwhm, dw_min) == FwhmSRaw(fwhm, dw_min)

\* a faulty variant: the Nyquist floor taken whatever the sampling is
FwhmSAlwaysFloor(fwhm, dw_min) == RInt(2)

\* fwhm_s = np.max([2., fwhm_s])
FwhmS(fwhm, dw_min) ==
    LET raw == FwhmSRaw(fwhm, dw_min)
    IN  IF RLt(raw, RInt(2)) THEN RInt(2) ELSE raw

\* ds = fwhm / fwhm_s
Ds(fwhm, fwhm_s) ==
    AsSeq([i \in 1..Len(fwhm) |-> RDiv(fwhm[i], fwhm_s)], Len(fwhm))

\* np.cumsum(ds)[i] + np.min(wave), accumulated from the left
RECURSIVE CumsumFrom(_, _, _)
CumsumFrom(ds, i, start) ==
    IF i = 0 THEN start ELSE RAdd(CumsumFrom(ds, i - 1, start), ds[i])

\* a faulty variant: a grid whose first point is np.min(wave) itself
WaveConstFwhmFromMin(ds, w) ==
    AsSeq([i \in 1..Len(ds) |-> RSub(CumsumFrom(ds, i, RInt(IntMinSeq(w))), ds[1])],
          Len(ds))

\* wave_constfwhm = np.cumsum(ds) + np.min(wave)
WaveConstFwhm(ds, w) ==
    AsSeq([i \in 1..Len(ds) |-> CumsumFrom(ds, i, RInt(IntMinSeq(w)))], Len(ds))

\* np.interp(x, xp, fp) for increasing xp: the end values outside [xp[1], xp[n]],
\* the chord between the two neighbours inside
Interp(x, xp, fp) ==
    LET n == Len(xp) IN
    IF RLe(x, xp[1]) THEN fp[1]
    ELSE IF RLe(xp[n], x) THEN fp[n]
    ELSE LET j == CHOOSE k \in 1..(n - 1) : RLe(xp[k], x) /\ RLt(x, xp[k + 1])
         IN  RAdd(fp[j], RMul(RSub(x, xp[j]),
                              RDiv(RSub(fp[j + 1], fp[j]), RSub(xp[j + 1], xp[j]))))

\* np.interp(x, xp, fp) over an array x
InterpSeq(xs, xp, fp) == AsSeq([i \in 1..Len(xs) |-> Interp(xs[i], xp, fp)], Len(xs))

\* a faulty variant: the convolved flux returned on the resampled grid
FluxConvAsIs(w, grid, conv) == conv

\* flux_oldsampling = np.interp(wave, wave_constfwhm, flux_conv)
FluxOldSampling(w, grid, conv) == InterpSeq(RatSeq(w), grid, conv)

----------------------------------------------------------------------------
(* The Gaussian kernel and the convolution (astropy.convolution) *)

\* 2.3548, the FWHM of a Gaussian in units of its sigma (2 sqrt(2 ln 2))
FwhmPerSigma == Rat(23548, 10000)

\* sigma_s = fwhm_s / 2.3548
SigmaS(fwhm_s) == RDiv(fwhm_s, FwhmPerSigma)

\* Gaussian1DKernel(sigma_s): the default size is 8 sigma rounded up to an odd
\* integer; the taps are k = -KHalf .. KHalf
KHalf(fwhm_s) ==
    LET c8 == RCeil(RMul(RInt(8), SigmaS(fwhm_s)))
        size == IF c8 % 2 = 0 THEN c8 + 1 ELSE c8
    IN  (size - 1) \div 2

\* the fixed-point unit of the kernel weights
KScale == 512

\* The weight of tap k, in units of 1/KScale of the central one:
\* exp(-k^2 / (2 sigma_s^2)) = 2^(-e) with e = (2k / fwhm_s)^2, because
\* 2.3548^2 / 2 = 4 ln 2 to four places.  2^(-e) is taken exactly at whole e
\* and along the chord between the neighbouring whole exponents.
KWeight(fwhm_s, k) ==
    LET e == RDiv(RInt(4 * k * k), RMul(fwhm_s, fwhm_s))
        i == RFloor(e)
        r == RSub(e, RInt(i))
    IN  IF i > 9 THEN 0
        ELSE (KScale * (2 * r[2] - r[1])) \div (r[2] * Pow2(i + 1))

\* g = Gaussian1DKernel(sigma_s): the weights of taps 0 .. KHalf (tap -k is
\* tap k), g[k + 1] being the weight of tap k
Gaussian1DKernel(fwhm_s) ==
    AsSeq([k \in 1..(KHalf(fwhm_s) + 1) |-> KWeight(fwhm_s, k - 1)], KHalf(fwhm_s) + 1)

\* the sum of all the taps: normalize_kernel=True divides by it
RECURSIVE KSum(_, _)
KSum(g, k) == IF k = 0 THEN g[1] ELSE 2 * g[k + 1] + KSum(g, k - 1)

\* boundary='fill' (fill_value = 0): the array with h zero samples on each side
PadFill(f, h) ==
    AsSeq([m \in 1..(Len(f) + 2 * h) |->
              IF m <= h \/ m > h + Len(f) THEN RInt(0) ELSE f[m - h]],
          Len(f) + 2 * h)

\* sum over the taps -h .. k of weight * padded sample, for output sample j
RECURSIVE TapSum(_, _, _, _, _)
TapSum(padded, g, h, j, k) ==
    IF k < -h THEN RInt(0)
    ELSE RAdd(TapSum(padded, g, h, j, k - 1),
              RMul(RInt(g[Abs(k) + 1]), padded[j + h + k]))

\* the normalized kernel applied to a padded array; output sample j is centred
\* on padded sample j + h
ConvolvePadded(padded, g, h, n) ==
    LET tot == KSum(g, h)
    IN  AsSeq([j \in 1..n |-> RDiv(TapSum(padded, g, h, j, h), RInt(tot))], n)

\* convolve_fft(flux_constfwhm, g, normalize_kernel=True, boundary='fill')
ConvolveFft(f, g, h) == ConvolvePadded(PadFill(f, h), g, h, Len(f))

----------------------------------------------------------------------------
(* The two entry points *)

\* The locals of one call at its end.  status is "ok" (a value is returned) or
\* the exception that ends the call.  An empty wave makes np.min raise
\* ValueError.  dw_min = 0 (one point, or repeated wavelengths) is not checked:
\* fwhm / dw_min is evaluated all the same (divzero) and is infinite, so are
\* fwhm_s and sigma_s; what the kernel constructor makes of an infinite width is
\* the library's, an OverflowError or non-finite weights.
ConvolOutcomes(call, w, f, r) ==
    IF Len(w) = 0
    THEN {[call |-> call, status |-> "ValueError", divzero |-> FALSE]}
    ELSE IF DwMin(w) = 0
    THEN {[call |-> call, status |-> st, divzero |-> TRUE, dw_min |-> 0,
           fwhm_s |-> "inf", newflux |-> AsSeq([i \in 1..Len(w) |-> "nan"], Len(w))]
           : st \in {"OverflowError", "ok"}}
    ELSE LET dw_min == DwMin(w)
             fwhm == Fwhm(w, r)
             fwhm_s == FwhmS(fwhm, dw_min)
             ds == Ds(fwhm, fwhm_s)
             wave_constfwhm == WaveConstFwhm(ds, w)
             flux_constfwhm == InterpSeq(wave_constfwhm, RatSeq(w), RatSeq(f))
             g == Gaussian1DKernel(fwhm_s)
             h == KHalf(fwhm_s)
             flux_conv == ConvolveFft(flux_constfwhm, g, h)
             flux_oldsampling == FluxOldSampling(w, wave_constfwhm, flux_conv)
         IN  {[call |-> call, status |-> "ok", divzero |-> FALSE,
               dw_min |-> dw_min, fwhm |-> fwhm, fwhm_s_raw |-> FwhmSRaw(fwhm, dw_min),
               fwhm_s |-> fwhm_s, ds |-> ds,
               wave_constfwhm |-> wave_constfwhm, flux_constfwhm |-> flux_constfwhm,
               g |-> g, flux_conv |-> flux_conv, newflux |-> flux_oldsampling]}

\* def spec_convol(wave, flux, dv)
spec_convol(w, f, dv) == ConvolOutcomes("spec_convol", w, f, dv)

\* def spec_convol_R(wave, flux, R)
spec_convol_R(w, f, r) == ConvolOutcomes("spec_convol_R", w, f, r)

\* the .par reader, not called
ParIdle ==
    /\ pFile = [exists |-> FALSE, lines |-> <<>>]
    /\ pArgs = [isotopologue_number |-> 1]
    /\ pPc = "idle" /\ pIdx = 0 /\ pData = <<>> /\ pOut = [status |-> "none"]

\* the lookups, not called
LookupIdle == lkName = "" /\ lkIso = 1 /\ lk = [fn |-> "idle"]

\* the other functions, not called
FnIdle == fArgs = [fn |-> "idle"] /\ fOut = [fn |-> "idle"]

----------------------------------------------------------------------------
(* Inputs of the convolver *)

\* strictly increasing wavelength arrays of 2..MaxLen points
RECURSIVE SeqsOver(_, _)
SeqsOver(S, n) ==
    IF n = 0 THEN {<<>>}
    ELSE {Append(s, x) : s \in SeqsOver(S, n - 1), x \in S}

Increasing(w) == \A i \in 1..(Len(w) - 1) : w[i] < w[i + 1]

ValidWaves ==
    UNION {{w \in SeqsOver(1..MaxWave, n) : Increasing(w)} : n \in 2..MaxLen}

\* degenerate arrays: empty, one point, one wavelength repeated
DegenerateWaves ==
    {<<>>} \cup {[i \in 1..n |-> x] : n \in 1..MaxLen, x \in 1..MaxWave}

\* the worked example: wave = 1.0, 1.1, ..., 2.0 (11 points, in units of 0.1
\* micron), flux = 1 everywhere, R = 3000
ExampleWave == [i \in 1..11 |-> 9 + i]
ExampleFlux == [i \in 1..11 |-> 1]
ExampleRes == [kind |-> "scalar", v |-> 3000]

\* flux arrays of n points: the flat ones and the single spikes (every step of
\* the convolver is linear in flux)
FluxInputs(n) ==
    {[i \in 1..n |-> f] : f \in 0..MaxFlux}
    \cup {[i \in 1..n |-> IF i = p THEN f ELSE 0] : p \in 1..n, f \in 1..MaxFlux}

\* resolution arguments for n points: dv (km/s) for spec_convol, giving R = k;
\* a scalar or an aligned array of resolving powers for spec_convol_R
ResArgs(n) ==
    {[kind |-> "dv", v |-> Rat(c_value, 1000 * k)] : k \in 1..MaxR}
    \cup {[kind |-> "scalar", v |-> k] : k \in 1..MaxR}
    \cup {[kind |-> "array", v |-> a] : a \in SeqsOver(1..MaxR, n)}

\* a degenerate wave never gets as far as reading flux or R: one flat flux and
\* the scalar resolutions stand for all
ConvolInit ==
    /\ \/ /\ wave \in ValidWaves
          /\ flux \in FluxInputs(Len(wave))
          /\ res \in ResArgs(Len(wave))
       \/ /\ wave \in DegenerateWaves
          /\ flux = [i \in 1..Len(wave) |-> 1]
          /\ res \in {r \in ResArgs(Len(wave)) : r.kind # "array"}
       \/ /\ wave = ExampleWave
          /\ flux = ExampleFlux
          /\ res = ExampleRes
    /\ cv = [call |-> "none"]
    /\ LookupIdle
    /\ ParIdle
    /\ FnIdle

Call_spec_convol ==
    /\ cv.call = "none"
    /\ res.kind = "dv"
    /\ cv' \in spec_convol(wave, flux, res)
    /\ UNCHANGED <<wave, flux, res>>
    /\ UNCHANGED lvars
    /\ UNCHANGED pvars
    /\ UNCHANGED fvars

Call_spec_convol_R ==
    /\ cv.call = "none"
    /\ res.kind \in {"scalar", "array"}
    /\ cv' \in spec_convol_R(wave, flux, res)
    /\ UNCHANGED <<wave, flux, res>>
    /\ UNCHANGED lvars
    /\ UNCHANGED pvars
    /\ UNCHANGED fvars

ConvolNext == Call_spec_convol \/ Call_spec_convol_R

SpecConvol == ConvolInit /\ [][ConvolNext]_vars

----------------------------------------------------------------------------
(* The static lookup tables: Python dicts as sets of <<key, value>> pairs *)

\* trans of get_global_identifier: molecule_isotopologue code -> global id
GlobalIdTable ==
    {<<"H2O_1", 1>>, <<"H2O_2", 2>>, <<"H2O_3", 3>>, <<"H2O_4", 4>>,
      <<"H2O_5", 5>>, <<"H2O_6", 6>>, <<"H2O_7", 129>>, <<"CO2_1", 7>>,
      <<"CO2_2", 8>>, <<"CO2_3", 9>>, <<"CO2_4", 10>>, <<"CO2_5", 11>>,
      <<"CO2_6", 12>>, <<"CO2_7", 13>>, <<"CO2_8", 14>>, <<"CO2_9", 121>>,
      <<"CO2_10", 15>>, <<"CO2_11", 120>>, <<"CO2_12", 122>>, <<"O3_1", 16>>,
      <<"O3_2", 17>>, <<"O3_3", 18>>, <<"O3_4", 19>>, <<"O3_5", 20>>,
      <<"N2O_1", 21>>, <<"N2O_2", 22>>, <<"N2O_3", 23>>, <<"N2O_4", 24>>,
      <<"N2O_5", 25>>, <<"CO_1", 26>>, <<"CO_2", 27>>, <<"CO_3", 28>>,
      <<"CO_4", 29>>, <<"CO_5", 30>>, <<"CO_6", 31>>, <<"CH4_1", 32>>,
      <<"CH4_2", 33>>, <<"CH4_3", 34>>, <<"CH4_4", 35>>, <<"O2_1", 36>>,
      <<"O2_2", 37>>, <<"O2_3", 38>>, <<"NO_1", 39>>, <<"NO_2", 40>>,
      <<"NO_3", 41>>, <<"SO2_1", 42>>, <<"SO2_2", 43>>, <<"NO2_1", 44>>,
      <<"NH3_1", 45>>, <<"NH3_2", 46>>, <<"HNO3_1", 47>>, <<"HNO3_2", 117>>,
      <<"OH_1", 48>>, <<"OH_2", 49>>, <<"OH_3", 50>>, <<"HF_1", 51>>,
      <<"HF_2", 110>>, <<"HCl_1", 52>>, <<"HCl_2", 53>>, <<"HCl_3", 107>>,
      <<"HCl_4", 108>>, <<"HBr_1", 54>>, <<"HBr_2", 55>>, <<"HBr_3", 111>>,
      <<"HBr_4", 112>>, <<"HI_1", 56>>, <<"HI_2", 113>>, <<"ClO_1", 57>>,
      <<"ClO_2", 58>>, <<"OCS_1", 59>>, <<"OCS_2", 60>>, <<"OCS_3", 61>>,
      <<"OCS_4", 62>>, <<"OCS_5", 63>>, <<"H2CO_1", 64>>, <<"H2CO_2", 65>>,
      <<"H2CO_3", 66>>, <<"HOCl_1", 67>>, <<"HOCl_2", 68>>, <<"N2_1", 69>>,
      <<"N2_2", 118>>, <<"HCN_1", 70>>, <<"HCN_2", 71>>, <<"HCN_3", 72>>,
      <<"CH3Cl_1", 73>>, <<"CH3CL_2", 74>>, <<"H2O2_1", 75>>, <<"C2H2_1", 76>>,
      <<"C2H2_2", 77>>, <<"C2H2_3", 105>>, <<"C2H6_1", 78>>, <<"C2H6_2", 106>>,
      <<"PH3_1", 79>>, <<"COF2_1", 80>>, <<"COF2_2", 119>>, <<"SF6_1", 126>>,
      <<"H2S_1", 81>>, <<"H2S_2", 82>>, <<"H2S_3", 83>>, <<"HCOOH_1", 84>>,
      <<"HO2_1", 85>>, <<"O_1", 86>>, <<"ClONO2_1", 127>>, <<"ClONO2_2", 128>>,
      <<"NO+_1", 87>>, <<"HOBr_1", 88>>, <<"HOBr_2", 89>>, <<"C2H4_1", 90>>,
      <<"C2H4_2", 91>>, <<"CH3OH_1", 92>>, <<"CH3Br_1", 93>>, <<"CH3Br_2", 94>>,
      <<"CH3CN_1", 95>>, <<"CF4_1", 96>>, <<"C4H2_1", 116>>, <<"HC3N_1", 109>>,
      <<"H2_1", 103>>, <<"H2_2", 115>>, <<"CS_1", 97>>, <<"CS_2", 98>>,
      <<"CS_3", 99>>, <<"CS_4", 100>>, <<"SO3_1", 114>>, <<"C2N2_1", 123>>,
      <<"COCl2_1", 124>>, <<"COCl2_2", 125>>, <<"SiO_1", 200>>, <<"C6H6_1", 300>>,
      <<"CH3+_1", 400>>, <<"C3H4_1", 500>>}

\* mass of get_molmass: molecule_isotopologue code -> mass in amu, as the
\* decimal literal of the source
MassTable ==
    {<<"H2O_1", "18.010565">>, <<"H2O_2", "20.014811">>, <<"H2O_3", "19.01478">>,
      <<"H2O_4", "19.01674">>, <<"H2O_5", "21.020985">>, <<"H2O_6", "20.020956">>,
      <<"H2O_7", "20.022915">>, <<"CO2_1", "43.98983">>, <<"CO2_2", "44.993185">>,
      <<"CO2_3", "45.994076">>, <<"CO2_4", "44.994045">>, <<"CO2_5", "46.997431">>,
      <<"CO2_6", "45.9974">>, <<"CO2_7", "47.998322">>, <<"CO2_8", "46.998291">>,
      <<"CO2_9", "45.998262">>, <<"CO2_10", "49.001675">>,
      <<"CO2_11", "48.001646">>, <<"CO2_12", "47.0016182378">>,
      <<"O3_1", "47.984745">>, <<"O3_2", "49.988991">>, <<"O3_3", "49.988991">>,
      <<"O3_4", "48.98896">>, <<"O3_5", "48.98896">>, <<"N2O_1", "44.001062">>,
      <<"N2O_2", "44.998096">>, <<"N2O_3", "44.998096">>, <<"N2O_4", "46.005308">>,
      <<"N2O_5", "45.005278">>, <<"CO_1", "27.994915">>, <<"CO_2", "28.99827">>,
      <<"CO_3", "29.999161">>, <<"CO_4", "28.99913">>, <<"CO_5", "31.002516">>,
      <<"CO_6", "30.002485">>, <<"CH4_1", "16.0313">>, <<"CH4_2", "17.034655">>,
      <<"CH4_3", "17.037475">>, <<"CH4_4", "18.04083">>, <<"O2_1", "31.98983">>,
      <<"O2_2", "33.994076">>, <<"O2_3", "32.994045">>, <<"NO_1", "29.997989">>,
      <<"NO_2", "30.995023">>, <<"NO_3", "32.002234">>, <<"SO2_1", "63.961901">>,
      <<"SO2_2", "65.957695">>, <<"NO2_1", "45.992904">>, <<"NO2_2", "46.989938">>,
      <<"NH3_1", "17.026549">>, <<"NH3_2", "18.023583">>,
      <<"HNO3_1", "62.995644">>, <<"HNO3_2", "63.99268">>, <<"OH_1", "17.00274">>,
      <<"OH_2", "19.006986">>, <<"OH_3", "18.008915">>, <<"HF_1", "20.006229">>,
      <<"HF_2", "21.012404">>, <<"HCl_1", "35.976678">>, <<"HCl_2", "37.973729">>,
      <<"HCl_3", "36.982853">>, <<"HCl_4", "38.979904">>, <<"HBr_1", "79.92616">>,
      <<"HBr_2", "81.924115">>, <<"HBr_3", "80.932336">>, <<"HBr_4", "82.930289">>,
      <<"HI_1", "127.912297">>, <<"HI_2", "128.918472">>, <<"ClO_1", "50.963768">>,
      <<"ClO_2", "52.960819">>, <<"OCS_1", "59.966986">>, <<"OCS_2", "61.96278">>,
      <<"OCS_3", "60.970341">>, <<"OCS_4", "60.966371">>, <<"OCS_5", "61.971231">>,
      <<"OCS_6", "62.966136">>, <<"H2CO_1", "30.010565">>,
      <<"H2CO_2", "31.01392">>, <<"H2CO_3", "32.014811">>,
      <<"HOCl_1", "51.971593">>, <<"HOCl_2", "53.968644">>,
      <<"N2_1", "28.006148">>, <<"N2_2", "29.003182">>, <<"HCN_1", "27.010899">>,
      <<"HCN_2", "28.014254">>, <<"HCN_3", "28.007933">>,
      <<"CH3Cl_1", "49.992328">>, <<"CH3CL_2", "51.989379">>,
      <<"H2O2_1", "34.00548">>, <<"C2H2_1", "26.01565">>,
      <<"C2H2_2", "27.019005">>, <<"C2H2_3", "27.021825">>,
      <<"C2H6_1", "30.04695">>, <<"C2H6_2", "31.050305">>,
      <<"PH3_1", "33.997238">>, <<"COF2_1", "65.991722">>,
      <<"COF2_2", "66.995083">>, <<"SF6_1", "145.962492">>,
      <<"H2S_1", "33.987721">>, <<"H2S_2", "35.983515">>, <<"H2S_3", "34.987105">>,
      <<"HCOOH_1", "46.00548">>, <<"HO2_1", "32.997655">>, <<"O_1", "15.994915">>,
      <<"ClONO2_1", "96.956672">>, <<"ClONO2_2", "98.953723">>,
      <<"NO+_1", "29.997989">>, <<"HOBr_1", "95.921076">>,
      <<"HOBr_2", "97.919027">>, <<"C2H4_1", "28.0313">>,
      <<"C2H4_2", "29.034655">>, <<"CH3OH_1", "32.026215">>,
      <<"CH3Br_1", "93.941811">>, <<"CH3Br_2", "95.939764">>,
      <<"CH3CN_1", "41.026549">>, <<"CF4_1", "87.993616">>,
      <<"C4H2_1", "50.01565">>, <<"HC3N_1", "51.010899">>, <<"H2_1", "2.01565">>,
      <<"H2_2", "3.021825">>, <<"CS_1", "43.971036">>, <<"CS_2", "45.966787">>,
      <<"CS_3", "44.974368">>, <<"CS_4", "44.970399">>, <<"SO3_1", "79.95682">>,
      <<"C2N2_1", "52.006148">>, <<"COCl2_1", "97.9326199796">>,
      <<"COCl2_2", "99.9296698896">>, <<"CS2_1", "75.94414">>,
      <<"CS2_2", "77.93994">>, <<"CS2_3", "76.943256">>, <<"CS2_4", "76.947495">>,
      <<"SiO_1", "44.0845">>, <<"C6H6_1", "78.1118">>, <<"CH3+_1", "15.0340">>,
      <<"C3H4_1", "40.06">>}

\* lines 333-338: the dict trans of translate_molecule_identifier
TranslateTable ==
    {<<"1", "H2O">>, <<"2", "CO2">>, <<"3", "O3">>, <<"4", "N2O">>,
     <<"5", "CO">>, <<"6", "CH4">>, <<"7", "O2">>, <<"8", "NO">>,
     <<"9", "SO2">>, <<"10", "NO2">>, <<"11", "NH3">>, <<"12", "HNO3">>,
     <<"13", "OH">>, <<"14", "HF">>, <<"15", "HCl">>, <<"16", "HBr">>,
     <<"17", "HI">>, <<"18", "ClO">>, <<"19", "OCS">>, <<"20", "H2CO">>,
     <<"21", "HOCl">>, <<"22", "N2">>, <<"23", "HCN">>, <<"24", "CH3Cl">>,
     <<"25", "H2O2">>, <<"26", "C2H2">>, <<"27", "C2H6">>, <<"28", "PH3">>,
     <<"29", "COF2">>, <<"30", "SF6">>, <<"31", "H2S">>, <<"32", "HCOOH">>,
     <<"33", "HO2">>, <<"34", "O">>, <<"35", "ClONO2">>, <<"36", "NO+">>,
     <<"37", "HOBr">>, <<"38", "C2H4">>, <<"39", "CH3OH">>,
     <<"40", "CH3Br">>, <<"41", "CH3CN">>, <<"42", "CF4">>, <<"43", "C4H2">>,
     <<"44", "HC3N">>, <<"45", "H2">>, <<"46", "CS">>, <<"47", "SO3">>}

\* lines 371-375: hitran_list of _check_hitran
HitranList ==
    <<"H2O", "CO2", "O3", "N2O", "CO", "CH4", "O2", "NO", "SO2", "NO2",
      "NH3", "HNO3", "OH", "HF", "HCl", "HBr", "HI", "ClO", "OCS", "H2CO",
      "HOCl", "N2", "HCN", "CH3Cl", "H2O2", "C2H2", "C2H6", "PH3", "COF2",
      "SF6", "H2S", "HCOOH", "HO2", "O", "ClONO2", "NO+", "HOBr", "C2H4",
      "CH3OH", "CH3Br", "CH3CN", "CF4", "C4H2", "HC3N", "H2", "CS", "SO3">>

\* lines 377-381: exomol_list, geisa_list and other_list of _check_hitran
ExomolList == <<"SiO">>
GeisaList == <<"C6H6">>
OtherList == <<"CH3+", "C3H4">>

\* lines 358-363: the dict trans of get_molecule_identifier, before it is
\* inverted
MoleculeTable ==
    {<<"1", "H2O">>, <<"2", "CO2">>, <<"3", "O3">>, <<"4", "N2O">>, <<"5", "CO">>,
      <<"6", "CH4">>, <<"7", "O2">>, <<"8", "NO">>, <<"9", "SO2">>,
      <<"10", "NO2">>, <<"11", "NH3">>, <<"12", "HNO3">>, <<"13", "OH">>,
      <<"14", "HF">>, <<"15", "HCl">>, <<"16", "HBr">>, <<"17", "HI">>,
      <<"18", "ClO">>, <<"19", "OCS">>, <<"20", "H2CO">>, <<"21", "HOCl">>,
      <<"22", "N2">>, <<"23", "HCN">>, <<"24", "CH3Cl">>, <<"25", "H2O2">>,
      <<"26", "C2H2">>, <<"27", "C2H6">>, <<"28", "PH3">>, <<"29", "COF2">>,
      <<"30", "SF6">>, <<"31", "H2S">>, <<"32", "HCOOH">>, <<"33", "HO2">>,
      <<"34", "O">>, <<"35", "ClONO2">>, <<"36", "NO+">>, <<"37", "HOBr">>,
      <<"38", "C2H4">>, <<"39", "CH3OH">>, <<"40", "CH3Br">>, <<"41", "CH3CN">>,
      <<"42", "CF4">>, <<"43", "C4H2">>, <<"44", "HC3N">>, <<"45", "H2">>,
      <<"46", "CS">>, <<"47", "SO3">>}

\* w0 of get_miri_mrs_wavelengths: sub-band -> lower wavelength (decimal literal)
MrsW0 ==
    {<<"1A", "4.87">>, <<"1B", "5.62">>, <<"1C", "6.49">>, <<"2A", "7.45">>,
      <<"2B", "8.61">>, <<"2C", "9.91">>, <<"3A", "11.47">>, <<"3B", "13.25">>,
      <<"3C", "15.30">>, <<"4A", "17.54">>, <<"4B", "20.44">>, <<"4C", "23.84">>}

\* w1 of get_miri_mrs_wavelengths: sub-band -> upper wavelength (decimal literal)
MrsW1 ==
    {<<"1A", "5.82">>, <<"1B", "6.73">>, <<"1C", "7.76">>, <<"2A", "8.90">>,
      <<"2B", "10.28">>, <<"2C", "11.87">>, <<"3A", "13.67">>, <<"3B", "15.80">>,
      <<"3C", "18.24">>, <<"4A", "21.10">>, <<"4B", "24.72">>, <<"4C", "28.82">>}

\* every molecule formula that one of the tables knows
TableMolecules ==
    {"C2H2", "C2H4", "C2H6", "C2N2", "C3H4", "C4H2", "C6H6", "CF4", "CH3+",
      "CH3Br", "CH3CL", "CH3CN", "CH3Cl", "CH3OH", "CH4", "CO", "CO2", "COCl2",
      "COF2", "CS", "CS2", "ClO", "ClONO2", "H2", "H2CO", "H2O", "H2O2", "H2S",
      "HBr", "HC3N", "HCN", "HCOOH", "HCl", "HF", "HI", "HNO3", "HO2", "HOBr",
      "HOCl", "N2", "N2O", "NH3", "NO", "NO+", "NO2", "O", "O2", "O3", "OCS", "OH",
      "PH3", "SF6", "SO2", "SO3", "SiO"}

Keys(T) == {p[1] : p \in T}
Get(T, k) == (CHOOSE p \in T : p[1] = k)[2]

\* int(s) for the decimal strings the tables hold
IntOfStr(s) == CHOOSE n \in 0..999 : ToString(n) = s

\* a faulty variant, T.get(k, 0): a lookup that falls back to a default
DictGetDefault(T, k) ==
    IF k \in Keys(T) THEN [status |-> "ok", value |-> Get(T, k)]
    ELSE [status |-> "ok", value |-> 0]

\* a dict lookup T[k]: the value, or KeyError
DictLookup(T, k) ==
    IF k \in Keys(T) THEN [status |-> "ok", value |-> Get(T, k)]
    ELSE [status |-> "KeyError"]

\* mol_isot_code = molecule_name + '_' + str(isotopologue_number)
MolIsotCode(name, iso) == name \o "_" \o ToString(iso)

\* def get_global_identifier: trans[mol_isot_code]; a KeyError is printed and
\* raised again
get_global_identifier(name, iso) == DictLookup(GlobalIdTable, MolIsotCode(name, iso))

\* a faulty variant: the table read one entry further on
translate_molecule_identifier_shifted(M) == DictLookup(TranslateTable, ToString(M + 1))

\* def translate_molecule_identifier: trans[str(M)]
translate_molecule_identifier(M) == DictLookup(TranslateTable, ToString(M))

\* trans = {v:k for k,v in trans.items()}: a later key replaces an earlier one
\* with the same value
InvertDict(T) ==
    {<<p[2], p[1]>> : p \in {q \in T : \A o \in T :
                                o[2] = q[2] => IntOfStr(o[1]) <= IntOfStr(q[1])}}

\* def get_molecule_identifier: int(trans[molecule_name]) on the inverted dict
get_molecule_identifier(name) ==
    LET hit == DictLookup(InvertDict(MoleculeTable), name)
    IN  IF hit.status = "ok" THEN [status |-> "ok", value |-> IntOfStr(hit.value)]
        ELSE hit

\* None of Python; a value that may be None is the value in a one-element tuple
None == <<>>

\* molecule_name in a list
InList(name, list) == \E i \in 1..Len(list) : list[i] = name

\* def _check_hitran(molecule_name): the catalogue in a one-element tuple, or
\* None
check_hitran(name) ==
    IF InList(name, HitranList) THEN <<"HITRAN">>
    ELSE IF InList(name, ExomolList) THEN <<"exomol">>
    ELSE IF InList(name, GeisaList) THEN <<"GEISA">>
    ELSE IF InList(name, OtherList) THEN <<"other">>
    ELSE None

\* def get_molmass: mass[mol_isot_code]
get_molmass(name, iso) == DictLookup(MassTable, MolIsotCode(name, iso))

\* def get_miri_mrs_wavelengths: w0[subband] is tried first; on KeyError the
\* message is printed and sys.exit(1) raises SystemExit, the request to end the
\* process; otherwise (w0[subband], w1[subband])
get_miri_mrs_wavelengths(subband) ==
    IF subband \in Keys(MrsW0)
    THEN [status |-> "ok", value |-> <<Get(MrsW0, subband), Get(MrsW1, subband)>>]
    ELSE [status |-> "SystemExit", code |-> 1, printed |-> TRUE]

----------------------------------------------------------------------------
(* Calls of the lookups *)

\* names no table knows
UnknownNames == {"XYZ", "co", "", "5A"}

LookupNames == TableMolecules \cup Keys(MrsW0) \cup UnknownNames

\* the convolver, not called
ConvolIdle ==
    wave = <<>> /\ flux = <<>> /\ res = [kind |-> "scalar", v |-> 1]
    /\ cv = [call |-> "idle"]

LookupInit ==
    /\ lkName \in LookupNames
    /\ lkIso \in 1..MaxIso
    /\ lk = [fn |-> "none"]
    /\ ConvolIdle
    /\ ParIdle
    /\ FnIdle

Call_get_global_identifier ==
    /\ lk.fn = "none"
    /\ lk' = [fn |-> "get_global_identifier",
              out |-> get_global_identifier(lkName, lkIso)]
    /\ UNCHANGED <<lkName, lkIso>>
    /\ UNCHANGED cvars
    /\ UNCHANGED pvars
    /\ UNCHANGED fvars

Call_get_molecule_identifier ==
    /\ lk.fn = "none"
    /\ lk' = [fn |-> "get_molecule_identifier",
              out |-> get_molecule_identifier(lkName)]
    /\ UNCHANGED <<lkName, lkIso>>
    /\ UNCHANGED cvars
    /\ UNCHANGED pvars
    /\ UNCHANGED fvars

Call_get_molmass ==
    /\ lk.fn = "none"
    /\ lk' = [fn |-> "get_molmass", out |-> get_molmass(lkName, lkIso)]
    /\ UNCHANGED <<lkName, lkIso>>
    /\ UNCHANGED cvars
    /\ UNCHANGED pvars
    /\ UNCHANGED fvars

Call_get_miri_mrs_wavelengths ==
    /\ lk.fn = "none"
    /\ lk' = [fn |-> "get_miri_mrs_wavelengths",
              out |-> get_miri_mrs_wavelengths(lkName)]
    /\ UNCHANGED <<lkName, lkIso>>
    /\ UNCHANGED cvars
    /\ UNCHANGED pvars
    /\ UNCHANGED fvars

LookupNext ==
    \/ Call_get_global_identifier
    \/ Call_get_molecule_identifier
    \/ Call_get_molmass
    \/ Call_get_miri_mrs_wavelengths

SpecLookup == LookupInit /\ [][LookupNext]_vars

----------------------------------------------------------------------------
(* extract_hitran_from_par, for a filename that does not end in '.zip'.     *)
(* A line of the file is held as the fields the fixed-width slices cut     *)
(* from it: len is len(line) as the loop sees it (a text line keeps its    *)
(* newline), numeric tells whether every sliced number converts.           *)

\* the record width the loop asks for
RecordLen == 160

\* h c / k_B in K cm: wn_to_k of a wavenumber in cm-1
HcOverK == Rat(14388, 10000)

\* lines a file can hold: two full records of isotopologue 1, one of
\* isotopologue 2, a record of exactly 160 characters without newline (the
\* last line of a file), records one character and many characters short, and
\* a full-width record whose numbers do not convert; Vp is the float32 the
\* loop reads, a rational
LinePool ==
    { [len |-> 161, numeric |-> TRUE, local_iso_id |-> 1, wn |-> 1000, sw |-> 3,
       a |-> 5, elower |-> 100, Vp |-> <<1, 1>>],
      [len |-> 161, numeric |-> TRUE, local_iso_id |-> 2, wn |-> 2000, sw |-> 1,
       a |-> 1, elower |-> 0, Vp |-> <<2, 1>>],
      [len |-> 160, numeric |-> TRUE, local_iso_id |-> 1, wn |-> 500, sw |-> 2,
       a |-> 3, elower |-> 50, Vp |-> <<5, 2>>],
      [len |-> 159, numeric |-> TRUE, local_iso_id |-> 1, wn |-> 1000, sw |-> 3,
       a |-> 5, elower |-> 100, Vp |-> <<1, 1>>],
      [len |-> 1, numeric |-> FALSE, local_iso_id |-> 0, wn |-> 0, sw |-> 0,
       a |-> 0, elower |-> 0, Vp |-> <<0, 1>>],
      [len |-> 161, numeric |-> FALSE, local_iso_id |-> 1, wn |-> 1000, sw |-> 3,
       a |-> 5, elower |-> 100, Vp |-> <<1, 1>>] }

\* line 808: `if not os.path.exists:` tests the function object, which is
\* always true, so the branch is never taken
PathExistsIsTruthy == TRUE

\* int(val) of a float: the fraction is dropped, rounding towards zero
PyInt(r) == IF r[1] >= 0 THEN r[1] \div r[2] ELSE -((-r[1]) \div r[2])

\* one row of data, lines 856-884, with the columns added on lines 887-889
ParseRow(line) ==
    [local_iso_id |-> line.local_iso_id, wn |-> line.wn, sw |-> line.sw,
     a |-> line.a, elower |-> line.elower, Vp |-> line.Vp,
     eup_k |-> RMul(RInt(line.wn + line.elower), HcOverK),
     wave |-> Rat(10000, line.wn)]

\* a faulty variant: extractbool without isobool
ExtractBoolAnyIsotopologue(row, args) ==
    /\ args.eupmax # None => RLt(row.eup_k, RInt(args.eupmax[1]))
    /\ args.aupmin # None => row.a > args.aupmin[1]
    /\ args.swmin # None => row.sw > args.swmin[1]
    /\ args.vup # None => PyInt(row.Vp) = args.vup[1]
    /\ args.wavemin # None => RLt(RInt(args.wavemin[1]), row.wave)
    /\ args.wavemax # None => RLt(row.wave, RInt(args.wavemax[1]))

\* extractbool of one row, lines 892-923: the isotopologue and every filter
\* that is not None
ExtractBool(row, args) ==
    /\ row.local_iso_id = args.isotopologue_number
    /\ args.eupmax # None => RLt(row.eup_k, RInt(args.eupmax[1]))
    /\ args.aupmin # None => row.a > args.aupmin[1]
    /\ args.swmin # None => row.sw > args.swmin[1]
    /\ args.vup # None => PyInt(row.Vp) = args.vup[1]
    /\ args.wavemin # None => RLt(RInt(args.wavemin[1]), row.wave)
    /\ args.wavemax # None => RLt(row.wave, RInt(args.wavemax[1]))

\* hitran_data = data[extractbool]
SelectRows(rows, args) == SelectSeq(rows, LAMBDA r : ExtractBool(r, args))

\* a faulty variant: a loop that never finds a line short
TooShortNever(line) == FALSE

\* len(line) < 160
TooShort(line) == line.len < RecordLen

ParInit ==
    /\ pFile \in [exists : BOOLEAN,
                  lines : UNION {SeqsOver(LinePool, n) : n \in 0..MaxLines}]
    /\ pArgs \in [isotopologue_number : {1, 2}, wavemin : {None, <<8>>},
                  wavemax : {None, <<15>>}, eupmax : {None, <<1500>>},
                  aupmin : {None, <<2>>}, swmin : {None, <<2>>}, vup : {None, <<2>>}]
    /\ pPc = "start" /\ pIdx = 0 /\ pData = <<>> /\ pOut = [status |-> "none"]
    /\ ConvolIdle
    /\ LookupIdle
    /\ FnIdle

\* lines 808-850: the existence test that never fires, then open(filename, 'r'),
\* which raises FileNotFoundError for a missing file
ParOpen ==
    /\ pPc = "start"
    /\ IF ~PathExistsIsTruthy
       THEN pPc' = "raised" /\ pOut' = [status |-> "ImportError", at |-> 0] /\ pIdx' = pIdx
       ELSE IF ~pFile.exists
       THEN pPc' = "raised" /\ pOut' = [status |-> "FileNotFoundError", at |-> 0]
            /\ pIdx' = pIdx
       ELSE pPc' = "loop" /\ pIdx' = 1 /\ pOut' = pOut
    /\ UNCHANGED <<pFile, pArgs, pData>>
    /\ UNCHANGED cvars
    /\ UNCHANGED lvars
    /\ UNCHANGED fvars

\* lines 852-854: a line shorter than 160 ends the call with ImportError
ParRaiseImportError ==
    /\ pPc = "loop" /\ pIdx <= Len(pFile.lines)
    /\ TooShort(pFile.lines[pIdx])
    /\ pPc' = "raised"
    /\ pOut' = [status |-> "ImportError", at |-> pIdx]
    /\ UNCHANGED <<pFile, pArgs, pIdx, pData>>
    /\ UNCHANGED cvars
    /\ UNCHANGED lvars
    /\ UNCHANGED fvars

\* lines 856-884: int() / float32() of a slice that is no number raises ValueError
ParRaiseValueError ==
    /\ pPc = "loop" /\ pIdx <= Len(pFile.lines)
    /\ ~TooShort(pFile.lines[pIdx])
    /\ ~pFile.lines[pIdx].numeric
    /\ pPc' = "raised"
    /\ pOut' = [status |-> "ValueError", at |-> pIdx]
    /\ UNCHANGED <<pFile, pArgs, pIdx, pData>>
    /\ UNCHANGED cvars
    /\ UNCHANGED lvars
    /\ UNCHANGED fvars

\* lines 856-884: the fields of a full line are appended to data
ParAppendLine ==
    /\ pPc = "loop" /\ pIdx <= Len(pFile.lines)
    /\ ~TooShort(pFile.lines[pIdx])
    /\ pFile.lines[pIdx].numeric
    /\ pData' = Append(pData, ParseRow(pFile.lines[pIdx]))
    /\ pIdx' = pIdx + 1
    /\ UNCHANGED <<pFile, pArgs, pPc, pOut>>
    /\ UNCHANGED cvars
    /\ UNCHANGED lvars
    /\ UNCHANGED fvars

\* lines 886-931: after the last line the table is built, filtered and returned
ParReturn ==
    /\ pPc = "loop" /\ pIdx > Len(pFile.lines)
    /\ pPc' = "done"
    /\ pOut' = [status |-> "ok", hitran_data |-> SelectRows(pData, pArgs)]
    /\ UNCHANGED <<pFile, pArgs, pIdx, pData>>
    /\ UNCHANGED cvars
    /\ UNCHANGED lvars
    /\ UNCHANGED fvars

ParNext ==
    \/ ParOpen
    \/ ParRaiseImportError
    \/ ParRaiseValueError
    \/ ParAppendLine
    \/ ParReturn

SpecPar == ParInit /\ [][ParNext]_vars

----------------------------------------------------------------------------
(* extract_hitran_ch3p. A row of the fixed-width file is held as the       *)
(* columns the function uses: Nr, wave (micron) and elower (K).            *)

\* longest CH3+ line list, in rows
MaxCh3pRows == 2

\* rows a line list can hold
Ch3pRowPool ==
    { [Nr |-> 1, wave |-> 5, elower |-> 0],
      [Nr |-> 2, wave |-> 10, elower |-> 100],
      [Nr |-> 3, wave |-> 20, elower |-> 300] }

\* lines 945-949: the table read, with the columns wn, elower (now cm-1) and
\* eup_k
Ch3pTable(rows) ==
    AsSeq([i \in 1..Len(rows) |->
              [Nr |-> rows[i].Nr, wave |-> rows[i].wave,
               wn |-> Rat(10000, rows[i].wave),
               elower |-> RDiv(RInt(rows[i].elower), HcOverK),
               eup_k |-> RAdd(RMul(Rat(10000, rows[i].wave), HcOverK),
                              RInt(rows[i].elower))]],
          Len(rows))

\* lines 951-962: waveminbool and wavemaxbool are bound only inside their
\* `is not None` tests, and line 959 reads both, waveminbool first
extract_hitran_ch3p(rows, wavemin, wavemax) ==
    IF wavemin = None
    THEN [fn |-> "extract_hitran_ch3p", status |-> "UnboundLocalError",
          name |-> "waveminbool"]
    ELSE IF wavemax = None
    THEN [fn |-> "extract_hitran_ch3p", status |-> "UnboundLocalError",
          name |-> "wavemaxbool"]
    ELSE [fn |-> "extract_hitran_ch3p", status |-> "ok",
          hitran_data |->
              SelectSeq(Ch3pTable(rows),
                        LAMBDA r : r.wave > wavemin[1] /\ r.wave < wavemax[1])]

Ch3pInit ==
    /\ fArgs \in [fn : {"extract_hitran_ch3p"},
                  rows : UNION {SeqsOver(Ch3pRowPool, n) : n \in 0..MaxCh3pRows},
                  wavemin : {None, <<8>>, <<12>>},
                  wavemax : {None, <<15>>}]
    /\ fOut = [fn |-> "none"]
    /\ ConvolIdle
    /\ LookupIdle
    /\ ParIdle

Call_extract_hitran_ch3p ==
    /\ fArgs.fn = "extract_hitran_ch3p"
    /\ fOut.fn = "none"
    /\ fOut' = extract_hitran_ch3p(fArgs.rows, fArgs.wavemin, fArgs.wavemax)
    /\ UNCHANGED fArgs
    /\ UNCHANGED cvars
    /\ UNCHANGED lvars
    /\ UNCHANGED pvars

Ch3pNext == Call_extract_hitran_ch3p

SpecCh3p == Ch3pInit /\ [][Ch3pNext]_vars

----------------------------------------------------------------------------

(* get_miri_mrs_resolution. Wavelengths are integers in units of 0.01      *)
(* micron, A is held in tenths and R in thousandths, so that               *)
(* 1000 R = 100 (10 A) + 10 B (100 wave) is exact.                         *)

\* longest wave array given to get_miri_mrs_resolution
MaxMrsLen == 3

\* lines 606-664: the dicts w0, w1, A and B, in the order of their keys
MrsBands ==
    << [band |-> "1A", w0 |-> 490, w1 |-> 574, A |-> -195, B |-> 572],
       [band |-> "1B", w0 |-> 566, w1 |-> 663, A |-> 27420, B |-> 150],
       [band |-> "1C", w0 |-> 653, w1 |-> 765, A |-> -5430, B |-> 601],
       [band |-> "2A", w0 |-> 751, w1 |-> 877, A |-> 3320, B |-> 400],
       [band |-> "2B", w0 |-> 867, w1 |-> 1013, A |-> -3310, B |-> 400],
       [band |-> "2C", w0 |-> 1002, w1 |-> 1170, A |-> 4300, B |-> 264],
       [band |-> "3A", w0 |-> 1155, w1 |-> 1347, A |-> -51200, B |-> 633],
       [band |-> "3B", w0 |-> 1334, w1 |-> 1557, A |-> -18710, B |-> 317],
       [band |-> "3C", w0 |-> 1541, w1 |-> 1798, A |-> -24400, B |-> 312],
       [band |-> "4A", w0 |-> 1770, w1 |-> 2095, A |-> -20660, B |-> 225],
       [band |-> "4B", w0 |-> 2069, w1 |-> 2448, A |-> -10760, B |-> 150],
       [band |-> "4C", w0 |-> 2419, w1 |-> 2810, A |-> -34510, B |-> 216] >>

\* wave = np.array(wave, ndmin=1): a scalar becomes an array of one element
NpArrayNdmin1(arg) == IF arg.kind = "scalar" THEN <<arg.v>> ELSE arg.v

\* mask = (wave > w0[band]) & (wave <= w1[band])
MrsMask(b, w) == w > b.w0 /\ w <= b.w1

\* R_band = A[band] + B[band] * wave_band, in thousandths
MrsRBand(b, w) == b.A * 100 + b.B * 10 * w

\* wave_band and R_band of one band, as aligned pairs <<wave, R>>
MrsBandPairs(b, wv) ==
    LET sel == SelectSeq(wv, LAMBDA w : MrsMask(b, w))
    IN  AsSeq([i \in 1..Len(sel) |-> <<sel[i], MrsRBand(b, sel[i])>>], Len(sel))

\* lines 671-676: total_wave and R after the first k bands of the loop
RECURSIVE MrsConcatenate(_, _)
MrsConcatenate(wv, k) ==
    IF k = 0 THEN <<>>
    ELSE MrsConcatenate(wv, k - 1) \o MrsBandPairs(MrsBands[k], wv)

\* the sorted distinct values of a set of integers, as np.unique returns them
RECURSIVE SortedSeqOf(_)
SortedSeqOf(S) ==
    IF S = {} THEN <<>>
    ELSE LET m == CHOOSE x \in S : \A y \in S : x <= y
         IN  <<m>> \o SortedSeqOf(S \ {m})

\* np.unique(total_wave, return_inverse=True): the sorted distinct values and,
\* for every element of total_wave, its index among them
NpUnique(total) ==
    LET u == SortedSeqOf({total[j] : j \in 1..Len(total)})
    IN  [values |-> u,
         inverse |-> AsSeq([j \in 1..Len(total) |->
                               CHOOSE i \in 1..Len(u) : u[i] = total[j]],
                           Len(total))]

\* np.inf in smallest_R: no R seen yet (a value seen is held as <<R>>)
Inf == <<>>

\* a faulty variant: smallest_R[unique_indices] = R, the last R of a wavelength
\* wins
RECURSIVE AssignAt(_, _, _)
AssignAt(n, idx, vals) ==
    IF Len(idx) = 0 THEN AsSeq([i \in 1..n |-> Inf], n)
    ELSE LET m == Len(idx)
             acc == AssignAt(n, SubSeq(idx, 1, m - 1), SubSeq(vals, 1, m - 1))
         IN  [acc EXCEPT ![idx[m]] = <<vals[m]>>]

\* np.minimum.at(smallest_R, unique_indices, R) on smallest_R = np.full(n, inf):
\* element by element, smallest_R[idx[j]] = min(smallest_R[idx[j]], R[j])
RECURSIVE MinimumAt(_, _, _)
MinimumAt(n, idx, vals) ==
    IF Len(idx) = 0 THEN AsSeq([i \in 1..n |-> Inf], n)
    ELSE LET m == Len(idx)
             acc == MinimumAt(n, SubSeq(idx, 1, m - 1), SubSeq(vals, 1, m - 1))
         IN  [acc EXCEPT ![idx[m]] =
                 IF @ = Inf THEN <<vals[m]>>
                 ELSE IF vals[m] < @[1] THEN <<vals[m]>> ELSE @]

\* def get_miri_mrs_resolution(wave)
get_miri_mrs_resolution(arg) ==
    LET wv == NpArrayNdmin1(arg)
        pairs == MrsConcatenate(wv, Len(MrsBands))
        total_wave == AsSeq([j \in 1..Len(pairs) |-> pairs[j][1]], Len(pairs))
        R == AsSeq([j \in 1..Len(pairs) |-> pairs[j][2]], Len(pairs))
        uniq == NpUnique(total_wave)
        smallest_R == MinimumAt(Len(uniq.values), uniq.inverse, R)
    IN  [fn |-> "get_miri_mrs_resolution", status |-> "ok",
         unique_waves |-> uniq.values, smallest_R |-> smallest_R]

\* wavelengths given: below every subband, on the open lower edge of 1A, inside
\* 1A only, in 1A and 1B, on the closed upper edge of 1A (also in 1B), in 1B
\* and 1C, on the upper edge of 4C, above every subband
MrsWavePool == {480, 490, 500, 570, 574, 660, 2810, 2900}

MrsInit ==
    /\ fArgs \in [fn : {"get_miri_mrs_resolution"},
                  wave : {[kind |-> "scalar", v |-> w] : w \in MrsWavePool}
                         \cup {[kind |-> "array", v |-> a] :
                                  a \in UNION {SeqsOver(MrsWavePool, n) :
                                                  n \in 0..MaxMrsLen}}]
    /\ fOut = [fn |-> "none"]
    /\ ConvolIdle
    /\ LookupIdle
    /\ ParIdle

Call_get_miri_mrs_resolution ==
    /\ fArgs.fn = "get_miri_mrs_resolution"
    /\ fOut.fn = "none"
    /\ fOut' = get_miri_mrs_resolution(fArgs.wave)
    /\ UNCHANGED fArgs
    /\ UNCHANGED cvars
    /\ UNCHANGED lvars
    /\ UNCHANGED pvars

MrsNext == Call_get_miri_mrs_resolution

SpecMrs == MrsInit /\ [][MrsNext]_vars

----------------------------------------------------------------------------

(* make_rotation_diagram. lineparams is held as the set of its optional    *)
(* columns and its rows; np.log(q) is held as [ln |-> q], q exact: np.log  *)
(* is one-to-one on the positive numbers, so two y are equal exactly when  *)
(* their q are.                                                            *)

\* longest lineparams table, in rows
MaxRotRows == 2

\* rows of lineparams: every column the function may read, two flux columns
RotRowPool ==
    { [eup_k |-> 100, wn |-> 1000, a |-> 5, lineflux |-> 3, flux |-> 7,
       gup |-> 2, gp |-> 4, lineflux_err |-> 1],
      [eup_k |-> 200, wn |-> 2000, a |-> 1, lineflux |-> 1, flux |-> 2,
       gup |-> 6, gp |-> 3, lineflux_err |-> 2] }

\* np.log of a positive rational
NpLog(q) == [ln |-> q]

\* lines 34-38: gup is bound from column 'gup', then rebound from 'gp'
RotGup(lineparams, i) ==
    IF "gp" \in lineparams.columns THEN lineparams.rows[i].gp
    ELSE lineparams.rows[i].gup

\* line 41: y = np.log(F/(wn*1e2*gup*a)), all mks
RotYMks(lineparams, fluxkey, i) ==
    LET r == lineparams.rows[i]
    IN  NpLog(Rat(r[fluxkey], r.wn * 100 * RotGup(lineparams, i) * r.a))

\* line 46: y = np.log(1000.*F/(wn*gup*a)), all cgs
RotYCgs(lineparams, fluxkey, i) ==
    LET r == lineparams.rows[i]
    IN  NpLog(Rat(1000 * r[fluxkey], r.wn * RotGup(lineparams, i) * r.a))

\* line 48: y = np.log(F/(wn*gup*a)), mixed units
RotYMixed(lineparams, fluxkey, i) ==
    LET r == lineparams.rows[i]
    IN  NpLog(Rat(r[fluxkey], r.wn * RotGup(lineparams, i) * r.a))

\* lines 41-48: y is the mks value unless units is 'cgs' or 'mixed'
RotY(lineparams, units, fluxkey, i) ==
    IF units = "mixed" THEN RotYMixed(lineparams, fluxkey, i)
    ELSE IF units = "cgs" THEN RotYCgs(lineparams, fluxkey, i)
    ELSE RotYMks(lineparams, fluxkey, i)

\* def make_rotation_diagram(lineparams, units='mks', fluxkey='lineflux'); with
\* neither 'gup' nor 'gp' among the columns gup is unbound on line 41
make_rotation_diagram(lineparams, units, fluxkey) ==
    LET n == Len(lineparams.rows)
        x == AsSeq([i \in 1..n |-> lineparams.rows[i].eup_k], n)
        y == AsSeq([i \in 1..n |-> RotY(lineparams, units, fluxkey, i)], n)
        dy == AsSeq([i \in 1..n |->
                        Rat(lineparams.rows[i].lineflux_err,
                            lineparams.rows[i][fluxkey])], n)
    IN  IF lineparams.columns \cap {"gup", "gp"} = {}
        THEN [fn |-> "make_rotation_diagram", status |-> "UnboundLocalError",
              name |-> "gup"]
        ELSE IF "lineflux_err" \in lineparams.columns
        THEN [fn |-> "make_rotation_diagram", status |-> "ok",
              rot_dict |-> [x |-> x, y |-> y, yerr |-> dy, units |-> units]]
        ELSE [fn |-> "make_rotation_diagram", status |-> "ok",
              rot_dict |-> [x |-> x, y |-> y, units |-> units]]

\* the units a caller passes: the three documented ones and one that is not
RotUnits == {"mks", "cgs", "mixed", "SI"}

RotInit ==
    /\ fArgs \in [fn : {"make_rotation_diagram"},
                  lineparams : [columns : SUBSET {"gup", "gp", "lineflux_err"},
                                rows : UNION {SeqsOver(RotRowPool, n) :
                                                 n \in 0..MaxRotRows}],
                  units : RotUnits,
                  fluxkey : {"lineflux", "flux"}]
    /\ fOut = [fn |-> "none"]
    /\ ConvolIdle
    /\ LookupIdle
    /\ ParIdle

Call_make_rotation_diagram ==
    /\ fArgs.fn = "make_rotation_diagram"
    /\ fOut.fn = "none"
    /\ fOut' = make_rotation_diagram(fArgs.lineparams, fArgs.units, fArgs.fluxkey)
    /\ UNCHANGED fArgs
    /\ UNCHANGED cvars
    /\ UNCHANGED lvars
    /\ UNCHANGED pvars

RotNext == Call_make_rotation_diagram

SpecRot == RotInit /\ [][RotNext]_vars

----------------------------------------------------------------------------

(* The molecule number tables and the catalogue classifier: a number is    *)
(* translated to a name, or a name is classified, and the name is then     *)
(* given to get_molecule_identifier.                                       *)

\* molecule numbers are 0..MaxM
MaxM == 48

MolInit ==
    /\ \/ fArgs \in [fn : {"translate_molecule_identifier"}, M : 0..MaxM]
       \/ fArgs \in [fn : {"_check_hitran"}, molecule_name : LookupNames]
    /\ fOut = [fn |-> "none"]
    /\ ConvolIdle
    /\ LookupIdle
    /\ ParIdle

Call_translate_molecule_identifier ==
    /\ fArgs.fn = "translate_molecule_identifier"
    /\ fOut.fn = "none"
    /\ fOut' = [fn |-> "translate_molecule_identifier",
                out |-> translate_molecule_identifier(fArgs.M)]
    /\ UNCHANGED fArgs
    /\ UNCHANGED cvars
    /\ UNCHANGED lvars
    /\ UNCHANGED pvars

Call_check_hitran ==
    /\ fArgs.fn = "_check_hitran"
    /\ fOut.fn = "none"
    /\ fOut' = [fn |-> "_check_hitran", out |-> check_hitran(fArgs.molecule_name)]
    /\ UNCHANGED fArgs
    /\ UNCHANGED cvars
    /\ UNCHANGED lvars
    /\ UNCHANGED pvars

\* get_molecule_identifier of the name translate_molecule_identifier returned
Then_get_molecule_identifier_of_translation ==
    /\ fOut.fn = "translate_molecule_identifier"
    /\ fOut.out.status = "ok"
    /\ fOut' = [fn |-> "get_molecule_identifier", after |-> fOut,
                out |-> get_molecule_identifier(fOut.out.value)]
    /\ UNCHANGED fArgs
    /\ UNCHANGED cvars
    /\ UNCHANGED lvars
    /\ UNCHANGED pvars

\* get_molecule_identifier of the name _check_hitran classified
Then_get_molecule_identifier_of_classified ==
    /\ fOut.fn = "_check_hitran"
    /\ fOut' = [fn |-> "get_molecule_identifier", after |-> fOut,
                out |-> get_molecule_identifier(fArgs.molecule_name)]
    /\ UNCHANGED fArgs
    /\ UNCHANGED cvars
    /\ UNCHANGED lvars
    /\ UNCHANGED pvars

MolNext ==
    \/ Call_translate_molecule_identifier
    \/ Call_check_hitran
    \/ Then_get_molecule_identifier_of_translation
    \/ Then_get_molecule_identifier_of_classified

SpecMol == MolInit /\ [][MolNext]_vars

----------------------------------------------------------------------------

(* The whole module: one of the components is exercised, the others stay   *)
(* idle.                                                                   *)

Init == ConvolInit \/ LookupInit \/ ParInit \/ Ch3pInit \/ MrsInit \/ RotInit \/ MolInit

Next == ConvolNext \/ LookupNext \/ ParNext \/ Ch3pNext \/ MrsNext \/ RotNext \/ MolNext

Spec == Init /\ [][Next]_vars

----------------------------------------------------------------------------
(* Properties of the convolver, under SpecConvol *)

\* wave and flux of equal length n >= 2, wave strictly increasing (every
\* resolving power of the model is positive)
ValidInput == Len(wave) >= 2 /\ Len(flux) = Len(wave) /\ Increasing(wave)

\* a call has been made on the current arguments
Called == cv.call \in {"spec_convol", "spec_convol_R"}

\* C1: for valid input both entry points return a flux of exactly n elements,
\* element i being the convolved flux read at the original wave[i]
C1_OutputOnInputGrid ==
    (Called /\ ValidInput) =>
        /\ cv.status = "ok"
        /\ Len(cv.newflux) = Len(wave)
        /\ \A i \in 1..Len(wave) :
              cv.newflux[i] = Interp(RInt(wave[i]), cv.wave_constfwhm, cv.flux_conv)

\* C1 witness: a three-point call returned, and its output differs from the
\* convolved flux on the resampled grid
C1_Witness ==
    /\ Called /\ ValidInput /\ Len(wave) = 3
    /\ cv.status = "ok"
    /\ cv.newflux # cv.flux_conv

\* boundary='extend' as the comment on line 445 describes it: h copies of the
\* nearest edge sample on each side
PadExtend(f, h) ==
    AsSeq([m \in 1..(Len(f) + 2 * h) |->
              IF m <= h THEN f[1] ELSE IF m > h + Len(f) THEN f[Len(f)] ELSE f[m - h]],
          Len(f) + 2 * h)

\* C2: every kernel tap outside the resampled array uses the nearest edge
\* sample, never zero: the convolved flux is the kernel applied to the
\* edge-extended array
C2_EdgeTapsUseNearestSample ==
    (Called /\ ValidInput /\ cv.status = "ok") =>
        cv.flux_conv =
            ConvolvePadded(PadExtend(cv.flux_constfwhm, KHalf(cv.fwhm_s)),
                           cv.g, KHalf(cv.fwhm_s), Len(wave))

\* the flux is the same value at every point
FlatFlux == \A i \in 1..Len(flux) : flux[i] = flux[1]

\* C3: a flat spectrum stays flat: with flux = f everywhere every output
\* element, the first and the last included, is within 1 % of f
C3_FlatStaysFlat ==
    (Called /\ ValidInput /\ FlatFlux) =>
        /\ cv.status = "ok"
        /\ \A i \in 1..Len(wave) :
              RLe(RAbs(RSub(cv.newflux[i], RInt(flux[1]))),
                  RMul(Rat(1, 100), RInt(flux[1])))

\* a resolution argument of spec_convol_R for which the sampling before the
\* floor is below 2 on the current wave
Clamped(r) ==
    /\ r.kind # "dv"
    /\ RLt(FwhmSRaw(Fwhm(wave, r), DwMin(wave)), RInt(2))

\* C4 as claimed: once the floor applies the output of spec_convol_R does not
\* depend on R: any other R whose sampling is below 2 gives the same output
C4_OutputIndependentOfR ==
    (cv.call = "spec_convol_R" /\ ValidInput /\ Clamped(res)) =>
        \A r2 \in ResArgs(Len(wave)) :
            Clamped(r2) =>
                \A o2 \in spec_convol_R(wave, flux, r2) : o2.newflux = cv.newflux

\* C4 as amended: once the floor applies spec_convol_R works with fwhm_s = 2
\* and with the one Gaussian kernel of that width (taps 0..3 weighing 1, 1/2,
\* 1/16, 1/512) whatever R is, so any two such R share them; the grid steps
\* are ds[i] = wave[i] / (2 R[i]), which still depend on R
C4_ClampedSamplingIndependentOfR ==
    (cv.call = "spec_convol_R" /\ ValidInput /\ Clamped(res)) =>
        /\ cv.status = "ok"
        /\ cv.fwhm_s = RInt(2)
        /\ cv.g = <<KScale, KScale \div 2, KScale \div 16, KScale \div 512>>
        /\ \A i \in 1..Len(wave) :
              cv.ds[i] = RDiv(RInt(wave[i]), RMul(RInt(2), ResAt(res, i)))

\* C4 witness: a call with the floor applied, and another R with the floor
\* applied that gives a different output
C4_Witness ==
    /\ cv.call = "spec_convol_R" /\ ValidInput /\ Clamped(res)
    /\ cv.status = "ok"
    /\ RLt(cv.fwhm_s_raw, RInt(2))
    /\ \E r2 \in ResArgs(Len(wave)) :
          /\ Clamped(r2)
          /\ \E o2 \in spec_convol_R(wave, flux, r2) : o2.newflux # cv.newflux

\* every grid point after the first is the one before plus its own step
GridAccumulates ==
    \A i \in 2..Len(wave) :
        cv.wave_constfwhm[i] = RAdd(cv.wave_constfwhm[i - 1], cv.ds[i])

\* the steps are the local FWHM over the global sampling factor
StepsAreFwhmOverSampling ==
    \A i \in 1..Len(wave) : cv.ds[i] = RDiv(cv.fwhm[i], cv.fwhm_s)

MinConsecutiveDiff ==
    IntMinSeq([i \in 1..(Len(wave) - 1) |-> wave[i + 1] - wave[i]])

\* C6: for strictly increasing wave the dw_min found with the circular
\* difference is the smallest consecutive difference, and the wrap-around term
\* |wave[0] - wave[n-1]| is not below it
C6_WrapTermNeverMinimum ==
    (Called /\ ValidInput) =>
        /\ cv.status = "ok"
        /\ cv.dw_min = MinConsecutiveDiff
        /\ Dws(wave)[1] >= cv.dw_min

\* C6 witness: a call on three or more points, the wrap-around term strictly
\* above the minimum spacing that was found
C6_Witness ==
    /\ Called /\ ValidInput /\ Len(wave) >= 3
    /\ cv.status = "ok"
    /\ Dws(wave)[1] > cv.dw_min

\* wave is empty, a single point, or one wavelength repeated
DegenerateInput == \A i \in 1..Len(wave) : wave[i] = wave[1]

\* C7: degenerate wavelength input ends in an error raised by the function,
\* without a division by a zero dw_min having been carried out
C7_DegenerateInputFailsFast ==
    (Called /\ DegenerateInput) =>
        /\ cv.status \in {"ValueError", "OverflowError"}
        /\ ~cv.divzero

----------------------------------------------------------------------------
(* Properties of the lookups, under SpecLookup *)

\* C8: get_molecule_identifier('CO') is 5, get_molmass('H2O', 1) is
\* 18.010565, and a name that is no key of the table looked into ends each of
\* get_molecule_identifier, get_global_identifier and get_molmass in KeyError
C8_StaticLookups ==
    /\ (lk.fn = "get_molecule_identifier" /\ lkName = "CO")
          => lk.out = [status |-> "ok", value |-> 5]
    /\ (lk.fn = "get_molmass" /\ lkName = "H2O" /\ lkIso = 1)
          => lk.out = [status |-> "ok", value |-> "18.010565"]
    /\ (lk.fn = "get_molecule_identifier" /\ lkName \notin {p[2] : p \in MoleculeTable})
          => lk.out = [status |-> "KeyError"]
    /\ (lk.fn = "get_global_identifier"
            /\ MolIsotCode(lkName, lkIso) \notin Keys(GlobalIdTable))
          => lk.out = [status |-> "KeyError"]
    /\ (lk.fn = "get_molmass" /\ MolIsotCode(lkName, lkIso) \notin Keys(MassTable))
          => lk.out = [status |-> "KeyError"]

\* C8 witness: get_molmass has been called with the unknown name 'XYZ' and
\* ended in KeyError
C8_Witness ==
    /\ lk.fn = "get_molmass" /\ lkName = "XYZ"
    /\ lk.out.status = "KeyError"

\* C9: an unknown sub-band name ends get_miri_mrs_wavelengths in a lookup
\* error; no process exit is requested and no value is returned
C9_UnknownSubbandIsLookupError ==
    (lk.fn = "get_miri_mrs_wavelengths" /\ lkName \notin Keys(MrsW0))
        => lk.out.status = "KeyError"

----------------------------------------------------------------------------
(* Properties of extract_hitran_from_par, under SpecPar *)

\* the call has ended on a file that could be opened
ParEnded == pPc \in {"raised", "done"} /\ pFile.exists

ShortLines == {i \in 1..Len(pFile.lines) : pFile.lines[i].len < 160}

FirstShort == CHOOSE i \in ShortLines : \A j \in ShortLines : i <= j

\* the full-width lines whose numbers do not convert
UnparsableLines ==
    {i \in 1..Len(pFile.lines) :
        pFile.lines[i].len >= 160 /\ ~pFile.lines[i].numeric}

----------------------------------------------------------------------------
(* Properties of the filters of extract_hitran_from_par, under SpecPar *)

\* the records of the file as the loop parses them, in file order
ParsedRows == AsSeq([i \in 1..Len(pFile.lines) |-> ParseRow(pFile.lines[i])],
                    Len(pFile.lines))

\* the row has the isotopologue asked for and passes every filter supplied;
\* wave = 1e4 / wn and eup_k = (wn + elower) h c / k_B are compared in integers
PassesSuppliedFilters(row) ==
    /\ row.local_iso_id = pArgs.isotopologue_number
    /\ pArgs.wavemin = None \/ 10000 > pArgs.wavemin[1] * row.wn
    /\ pArgs.wavemax = None \/ 10000 < pArgs.wavemax[1] * row.wn
    /\ pArgs.eupmax = None \/ (row.wn + row.elower) * 14388 < pArgs.eupmax[1] * 10000
    /\ pArgs.aupmin = None \/ row.a > pArgs.aupmin[1]
    /\ pArgs.swmin = None \/ row.sw > pArgs.swmin[1]
    /\ pArgs.vup = None
       \/ (pArgs.vup[1] * row.Vp[2] <= row.Vp[1]
           /\ row.Vp[1] < (pArgs.vup[1] + 1) * row.Vp[2])

\* C11: when extract_hitran_from_par returns, the table holds exactly the
\* parsed rows whose isotopologue id equals isotopologue_number and that
\* satisfy every filter that was supplied (wave > wavemin, wave < wavemax,
\* eup_k < eupmax, a > aupmin, sw > swmin, int(Vp) = vup), a filter left at
\* None excluding no row, and the rows are in the order of the file.
C11_FiltersOptionalAndConjunctive ==
    pPc = "done" =>
        /\ pOut.status = "ok"
        /\ pOut.hitran_data = SelectSeq(ParsedRows, PassesSuppliedFilters)

\* a call that returned one of two parsed rows of the isotopologue asked for,
\* with one filter supplied and the others left at None
C11_Witness ==
    /\ pPc = "done"
    /\ Len(ParsedRows) = 2
    /\ \A i \in 1..2 : ParsedRows[i].local_iso_id = pArgs.isotopologue_number
    /\ Len(pOut.hitran_data) = 1
    /\ Cardinality({k \in {"wavemin", "wavemax", "eupmax", "aupmin", "swmin", "vup"} :
                       pArgs[k] # None}) = 1

----------------------------------------------------------------------------
(* Properties of extract_hitran_ch3p, under SpecCh3p *)

\* the row satisfies the wavelength bounds that were supplied
WithinSuppliedBounds(r) ==
    /\ fArgs.wavemin = None \/ r.wave > fArgs.wavemin[1]
    /\ fArgs.wavemax = None \/ r.wave < fArgs.wavemax[1]

\* C12: for every combination of supplied and omitted (None) wavemin and
\* wavemax, extract_hitran_ch3p completes and returns exactly the rows that
\* satisfy the supplied bounds (all rows when both are omitted).
C12_BoundsAreEachOptional ==
    fOut.fn = "extract_hitran_ch3p" =>
        /\ fOut.status = "ok"
        /\ fOut.hitran_data = SelectSeq(Ch3pTable(fArgs.rows), WithinSuppliedBounds)

----------------------------------------------------------------------------
(* Properties of the opening of the file by extract_hitran_from_par, under *)
(* SpecPar                                                                 *)

\* C13: whenever the given filename does not exist, extract_hitran_from_par
\* raises ImportError with the 'does not exist' message (the one raised on
\* line 809, before the file is opened or any line is read).
C13_MissingFileRaisesImportError ==
    (pPc # "start" /\ ~pFile.exists) =>
        /\ pPc = "raised"
        /\ pOut = [status |-> "ImportError", at |-> 0]

----------------------------------------------------------------------------
(* Properties of get_miri_mrs_resolution, under SpecMrs *)

\* the wavelengths given, as a set
MrsInputWaves ==
    LET wv == NpArrayNdmin1(fArgs.wave) IN {wv[i] : i \in 1..Len(wv)}

\* the subbands whose interval (w0, w1] contains w
BandsContaining(w) ==
    {k \in 1..Len(MrsBands) : MrsBands[k].w0 < w /\ w <= MrsBands[k].w1}

\* C14: get_miri_mrs_resolution returns two arrays of equal length; the
\* wavelengths are strictly increasing (so without duplicates) and each is one
\* of the input wavelengths; every distinct input wavelength that lies in at
\* least one subband interval (w0, w1] has exactly one entry, and its R is the
\* minimum of A[band] + B[band] * wavelength over the subbands containing it.
C14_SmallestRPerDistinctWavelength ==
    fOut.fn = "get_miri_mrs_resolution" =>
        LET U == fOut.unique_waves
            S == fOut.smallest_R
        IN  /\ fOut.status = "ok"
            /\ Len(U) = Len(S)
            /\ \A i \in 1..(Len(U) - 1) : U[i] < U[i + 1]
            /\ \A i \in 1..Len(U) : U[i] \in MrsInputWaves
            /\ \A w \in MrsInputWaves :
                   BandsContaining(w) # {} =>
                       /\ Cardinality({i \in 1..Len(U) : U[i] = w}) = 1
                       /\ \A i \in 1..Len(U) :
                              U[i] = w =>
                                  /\ S[i] # Inf
                                  /\ \E k \in BandsContaining(w) :
                                         S[i][1] = MrsBands[k].A * 100
                                                   + MrsBands[k].B * 10 * w
                                  /\ \A k \in BandsContaining(w) :
                                         S[i][1] <= MrsBands[k].A * 100
                                                    + MrsBands[k].B * 10 * w

\* a call whose input repeats a wavelength of two subbands and holds one of no
\* subband, answered with the single entry of the repeated wavelength
C14_Witness ==
    /\ fOut.fn = "get_miri_mrs_resolution"
    /\ fArgs.wave.kind = "array"
    /\ Len(fArgs.wave.v) = 3
    /\ \E w \in MrsInputWaves : BandsContaining(w) = {}
    /\ \E w \in MrsInputWaves :
           /\ Cardinality(BandsContaining(w)) = 2
           /\ Cardinality({i \in 1..3 : fArgs.wave.v[i] = w}) = 2
    /\ Len(fOut.unique_waves) = 1

----------------------------------------------------------------------------
(* Properties of the global sampling factor, under SpecConvol *)

\* fwhm[i] / dw_min of the call made, dw_min being the smallest consecutive
\* difference of wave
SamplingAt(i) == RDiv(cv.fwhm[i], RInt(MinConsecutiveDiff))

\* C15: the global sampling factor of spec_convol / spec_convol_R is
\* fwhm_s = max(2, min_i(fwhm[i] / dw_min)) with fwhm[i] = wave[i] / R[i]: it
\* is always >= 2, it is the unclamped minimum whenever that minimum is >= 2,
\* and it is 2 otherwise.
C15_SamplingIsFlooredMinimum ==
    (Called /\ ValidInput) =>
        /\ \A i \in 1..Len(wave) :
               RMul(cv.fwhm[i], ResAt(res, i)) = RInt(wave[i])
        /\ RLe(RInt(2), cv.fwhm_s)
        /\ (\A i \in 1..Len(wave) : RLe(RInt(2), SamplingAt(i))) =>
               /\ \E i \in 1..Len(wave) : cv.fwhm_s = SamplingAt(i)
               /\ \A i \in 1..Len(wave) : RLe(cv.fwhm_s, SamplingAt(i))
        /\ (\E i \in 1..Len(wave) : RLt(SamplingAt(i), RInt(2))) =>
               cv.fwhm_s = RInt(2)

\* a call with a per-point R whose unclamped minimum is above the floor and is
\* not taken at every point
C15_Witness ==
    /\ Called /\ ValidInput
    /\ res.kind = "array"
    /\ RLt(RInt(2), cv.fwhm_s)
    /\ \E i \in 1..Len(wave) : RLt(cv.fwhm_s, SamplingAt(i))

----------------------------------------------------------------------------
(* The two entry points compared, under SpecConvol *)

\* the resolving power (c / 1000) / dv for the dv of the call; a whole number
\* for every dv of the model
ConstantROfDv == RDiv(Rat(c_value, 1000), res.v)

\* the same way of ending and, for a call that returned, the same output
SameOutput(a, b) ==
    /\ a.status = b.status
    /\ a.status = "ok" => a.newflux = b.newflux

----------------------------------------------------------------------------
(* Properties of make_rotation_diagram, under SpecRot *)

\* the statistical weight of row i: column 'gp' when present, otherwise 'gup'
WeightOfRow(i) ==
    IF "gp" \in fArgs.lineparams.columns THEN fArgs.lineparams.rows[i].gp
    ELSE fArgs.lineparams.rows[i].gup

\* the flux of row i, from the column fluxkey names
FluxOfRow(i) == fArgs.lineparams.rows[i][fArgs.fluxkey]

\* the quantity whose logarithm the convention u puts on the y axis of row i
ConventionArgument(u, i) ==
    LET r == fArgs.lineparams.rows[i]
    IN  IF u = "mks" THEN Rat(FluxOfRow(i), r.wn * 100 * WeightOfRow(i) * r.a)
        ELSE IF u = "cgs" THEN Rat(1000 * FluxOfRow(i), r.wn * WeightOfRow(i) * r.a)
        ELSE Rat(FluxOfRow(i), r.wn * WeightOfRow(i) * r.a)

\* C17: make_rotation_diagram selects y by the units argument only,
\* y = ln(F / (wn*100*g*A)) for 'mks', ln(1000*F / (wn*g*A)) for 'cgs' and
\* ln(F / (wn*g*A)) for 'mixed', g being column 'gp' when present and
\* otherwise 'gup'; x is the 'eup_k' column; the result carries
\* 'yerr' = lineflux_err / F exactly when the input has a 'lineflux_err'
\* column; and its 'units' field names the convention, one of the three, that
\* was applied to y.
C17_UnitsNameTheConventionOfY ==
    (fOut.fn = "make_rotation_diagram"
     /\ fArgs.lineparams.columns \cap {"gup", "gp"} # {}) =>
        LET n == Len(fArgs.lineparams.rows)
            d == fOut.rot_dict
        IN  /\ fOut.status = "ok"
            /\ Len(d.x) = n /\ Len(d.y) = n
            /\ \A i \in 1..n : d.x[i] = fArgs.lineparams.rows[i].eup_k
            /\ fArgs.units \in {"mks", "cgs", "mixed"} =>
                   \A i \in 1..n : d.y[i].ln = ConventionArgument(fArgs.units, i)
            /\ "yerr" \in DOMAIN d <=> "lineflux_err" \in fArgs.lineparams.columns
            /\ "yerr" \in DOMAIN d =>
                   /\ Len(d.yerr) = n
                   /\ \A i \in 1..n :
                          d.yerr[i] = Rat(fArgs.lineparams.rows[i].lineflux_err,
                                          FluxOfRow(i))
            /\ d.units \in {"mks", "cgs", "mixed"}
            /\ \A i \in 1..n : d.y[i].ln = ConventionArgument(d.units, i)

----------------------------------------------------------------------------
(* Properties of the extent of the resampled grid, under SpecConvol *)

\* the largest input wavelength
MaxOfWave == CHOOSE x \in {wave[i] : i \in 1..Len(wave)} :
                \A i \in 1..Len(wave) : wave[i] <= x

\* C18: for every strictly increasing positive wave and positive R the
\* intermediate resampled grid covers the input wavelength range: its first
\* point is <= min(wave) and its last point, min(wave) + sum_i ds[i], is
\* >= max(wave), so that the final interpolation back onto wave never falls
\* outside the grid.
C18_GridCoversInputRange ==
    (Called /\ ValidInput /\ cv.status = "ok") =>
        LET n == Len(wave)
        IN  /\ cv.wave_constfwhm[n] = RAdd(RInt(IntMinSeq(wave)), RSum(cv.ds, n))
            /\ RLe(cv.wave_constfwhm[1], RInt(IntMinSeq(wave)))
            /\ RLe(RInt(MaxOfWave), cv.wave_constfwhm[n])

----------------------------------------------------------------------------
(* Properties of the molecule number tables, under SpecMol *)

\* C19: for every M in 1..47, translate_molecule_identifier(M) returns a name
\* and get_molecule_identifier of that name is M; and for every name,
\* _check_hitran(name) is 'HITRAN' if and only if get_molecule_identifier(name)
\* returns a number, the names classified 'exomol', 'GEISA', 'other' or None
\* raising KeyError.
C19_TablesInverseAndClassifierConsistent ==
    /\ (fOut.fn = "translate_molecule_identifier" /\ fArgs.M \in 1..47) =>
           fOut.out.status = "ok"
    /\ (fOut.fn = "get_molecule_identifier"
        /\ fOut.after.fn = "translate_molecule_identifier") =>
           fOut.out = [status |-> "ok", value |-> fArgs.M]
    /\ (fOut.fn = "get_molecule_identifier" /\ fOut.after.fn = "_check_hitran") =>
           /\ fOut.after.out = <<"HITRAN">> <=> fOut.out.status = "ok"
           /\ fOut.out.status = "ok" => fOut.out.value \in 1..47
           /\ fOut.after.out \in {<<"exomol">>, <<"GEISA">>, <<"other">>, None} =>
                  fOut.out.status = "KeyError"

\* the last molecule number translated and identified again
C19_Witness ==
    /\ fArgs.fn = "translate_molecule_identifier" /\ fArgs.M = 47
    /\ fOut.fn = "get_molecule_identifier"
    /\ fOut.after.out = [status |-> "ok", value |-> "SO3"]
    /\ fOut.out = [status |-> "ok", value |-> 47]

=============================================================================
